---- MODULE Spec2Model ----
(***************************************************************************)
(* Model of src/src/blockchain.js: the Blockchain class (an in-memory,     *)
(* hash-linked chain of blocks) with its asynchronous operations.          *)
(*                                                                         *)
(* Every method of the class is an async function or returns a Promise.    *)
(* An async function runs synchronously up to its first `await`; what      *)
(* follows the await is a continuation that the JavaScript engine puts on  *)
(* the microtask queue, which it drains in FIFO order.  The model keeps    *)
(* that queue explicitly (variable `queue`): a Call action runs the        *)
(* synchronous prefix of a method and enqueues its continuation, and the   *)
(* Step actions run the continuation at the head of the queue up to its    *)
(* next await.  Calls (and, in SpecT, modifications of stored blocks by    *)
(* code holding a reference to them) may happen between any two            *)
(* microtasks.                                                             *)
(*                                                                         *)
(* The Block class (./block.js) is not among the sources; its constructor, *)
(* validate() and the body encoding are modelled from the specification.   *)
(***************************************************************************)
EXTENDS Integers, Sequences, FiniteSets, TLC

VARIABLES
    chain,    \* this.chain: the stored blocks, chain[1] is this.chain[0]
    height,   \* this.height
    queue,    \* microtask queue: pending continuations of async methods
    calls,    \* one record per invocation that reached an await: its outcome
    last,     \* the most recent invocation: its inputs' facts and how its
              \* synchronous prefix ended ("pending": it reached its await)
    now,      \* the clock, in seconds (new Date().getTime() without millis)
    tampers   \* number of in-place modifications of stored blocks so far

vars == <<chain, height, queue, calls, last, now, tampers>>

-----------------------------------------------------------------------------
(* Bounds of the model *)

\* number of invocations by callers that reach an await (besides the
\* constructor's own)
MaxCalls == 2
\* number of clock ticks
MaxClock == 1
\* number of in-place modifications of stored blocks (SpecT only)
MaxTamper == 1

(* Program constants *)

\* const fiveMinutes = 5 * 60
fiveMinutes == 300

\* wallet addresses and star payloads callers may pass
Addresses == {1, 2}
Stars == {1}

\* null / undefined: the falsy "no hash" value
NONE == <<>>

\* the clock when the Blockchain is constructed
StartTime == fiveMinutes + 1

-----------------------------------------------------------------------------
(* Block (./block.js) *)

GenesisData == [data |-> "Genesis Block"]
StarData(star, address) == [star |-> star, address |-> address]

\* Buffer.from(JSON.stringify(data)).toString("hex"): an injective encoding
\* of the data object, here as a sequence of integers.
EncodeData(data) ==
    IF "data" \in DOMAIN data
    THEN <<0>>
    ELSE <<1, data.star, data.address>>

\* getBData(): the decoded body
DecodeBody(body) ==
    IF body[1] = 0
    THEN GenesisData
    ELSE StarData(body[2], body[3])

\* new Block(data)
Block(data) ==
    [hash |-> NONE, height |-> 0, body |-> EncodeData(data), time |-> 0,
     previousBlockHash |-> NONE]

\* SHA256(JSON.stringify(block)) over a block whose hash field is null:
\* a collision-free digest of height, body, time and previousBlockHash.
\* The digest is the sequence of the fields, the (variable-length) previous
\* hash last, so that distinct field values give distinct digests.
SHA256(block) ==
    <<block.height, block.time, Len(block.body)>> \o block.body
        \o block.previousBlockHash

\* block.validate(): recompute the digest with the hash cleared and compare
validate(block) == block.hash = SHA256(block)

-----------------------------------------------------------------------------
(* Challenge messages and signatures *)

\* A message is the sequence of its ':'-separated fields (message.split(":")).
\* A field is either the decimal text of a number or some other text.
NumField(n) == [num |-> TRUE, val |-> n]
TextField(n) == [num |-> FALSE, val |-> n]

\* `${address}:${seconds}:starRegistry`
requestMessageOwnershipVerification(address, t) ==
    <<TextField(address), NumField(t), TextField(0)>>

\* Not-a-number and numbers, as parseInt returns them
NaN == [nan |-> TRUE, val |-> 0]
Num(n) == [nan |-> FALSE, val |-> n]

\* parseInt(message.split(":")[1])
msgTimeOf(message) ==
    IF Len(message) >= 2 /\ message[2].num
    THEN Num(message[2].val)
    ELSE NaN

\* currentTime - msgTime, NaN if either is
Minus(a, b) == IF a.nan \/ b.nan THEN NaN ELSE Num(a.val - b.val)

\* elapsedIsMoreThan5Minutes with >= for >
elapsedIsAtLeast5Minutes(elapsedTime) ==
    ~elapsedTime.nan /\ elapsedTime.val >= fiveMinutes

\* elapsedTime > fiveMinutes: false for NaN
elapsedIsMoreThan5Minutes(elapsedTime) ==
    ~elapsedTime.nan /\ elapsedTime.val > fiveMinutes

\* A signature made by the owner of `address` over `message`
Sign(message, address) == [message |-> message, address |-> address]

\* bitcoinMessage.verify(message, address, signature)
verify(message, address, signature) == signature = Sign(message, address)

-----------------------------------------------------------------------------
(* validateChain *)

TamperViolation(block) == [kind |-> "tampered", hash |-> block.hash]
LinkageViolation(block) == [kind |-> "linkage", hash |-> block.hash]

\* The for-of loop of validateChain, entered at (1-based) index i: either the
\* next block's validate() is called and awaited, or the loop is over, the
\* error log is returned and the awaiting _addBlock is resumed.  The Promise
\* of block.validate() carries the verdict computed when it is called.
\* seen records how many blocks the finished validation has looked at.
validateChainLoop(ch, i, prevHash, errorLog) ==
    IF i <= Len(ch)
    THEN [pc |-> "validate", i |-> i, valid |-> validate(ch[i]),
          prevHash |-> prevHash, errorLog |-> errorLog, seen |-> 0]
    ELSE [pc |-> "add", i |-> 0, valid |-> TRUE,
          prevHash |-> prevHash, errorLog |-> errorLog, seen |-> Len(ch)]

\* validateChainLog with an `else if`: no linkage check of a tampered block
validateChainLogElseIf(block, wasValid, prevHash, errorLog) ==
    IF ~wasValid
    THEN Append(errorLog, TamperViolation(block))
    ELSE IF block.previousBlockHash # prevHash
    THEN Append(errorLog, LinkageViolation(block))
    ELSE errorLog

\* validateChainLog without lines 227-229: the verdict of validate() is
\* awaited and dropped
validateChainLogNoTamper(block, wasValid, prevHash, errorLog) ==
    IF block.previousBlockHash # prevHash
    THEN Append(errorLog, LinkageViolation(block))
    ELSE errorLog

\* The error log after the body of the loop for block ch[i], resumed with
\* the verdict wasValid of its validate()
validateChainLog(block, wasValid, prevHash, errorLog) ==
    LET log1 == IF ~wasValid
                THEN Append(errorLog, TamperViolation(block))
                ELSE errorLog
        hashesDontMatch == block.previousBlockHash # prevHash
    IN  IF hashesDontMatch
        THEN Append(log1, LinkageViolation(block))
        ELSE log1

\* Resuming validateChain after `await block.validate()` for block ch[c.i]
validateChainResume(ch, c) ==
    validateChainLoop(ch, c.i + 1, ch[c.i].hash,
                      validateChainLog(ch[c.i], c.valid, c.prevHash, c.errorLog))

\* validateChain run to completion on ch without interruption: its error log
RECURSIVE validateChainFrom(_, _, _, _)
validateChainFrom(ch, i, prevHash, errorLog) ==
    IF i > Len(ch)
    THEN errorLog
    ELSE validateChainFrom(ch, i + 1, ch[i].hash,
             validateChainLog(ch[i], validate(ch[i]), prevHash, errorLog))

validateChain(ch) == validateChainFrom(ch, 1, NONE, <<>>)

-----------------------------------------------------------------------------
(* _addBlock *)

\* prevHashOf reading self.chain[0] instead of self.chain[self.height - 1]
prevHashOfFirst(ch, h) == IF 1 \in 1..Len(ch) THEN ch[1].hash ELSE NONE

\* self.chain[self.height - 1]?.hash: undefined when there is no such block
prevHashOf(ch, h) == IF h \in 1..Len(ch) THEN ch[h].hash ELSE NONE

\* linkBlock without line 81: the previous hash is looked up, never assigned
linkBlockNoAssign(ch, h, block) ==
    [thrown |-> h # -1 /\ prevHashOf(ch, h) = NONE, block |-> block]

\* Lines 74-82: link the new block to the last one.  thrown: "Previous block
\* hash not found."
linkBlock(ch, h, block) ==
    LET isNotGenesisBlock == h # -1
        prevHash == prevHashOf(ch, h)
    IN  IF isNotGenesisBlock
        THEN IF prevHash = NONE
             THEN [thrown |-> TRUE, block |-> block]
             ELSE [thrown |-> FALSE,
                   block |-> [block EXCEPT !.previousBlockHash = prevHash]]
        ELSE [thrown |-> FALSE, block |-> block]

\* sealBlock without line 87: the digest is computed, the hash left unset
sealBlockNoHash(ch, block, t) ==
    [block EXCEPT !.time = t, !.height = Len(ch)]

\* sealBlock numbering the blocks from 1 (the length after the push)
sealBlockOneBased(ch, block, t) ==
    LET b == [block EXCEPT !.time = t, !.height = Len(ch) + 1]
    IN  [b EXCEPT !.hash = SHA256(b)]

\* Lines 84-87: time, height and hash of the new block
sealBlock(ch, block, t) ==
    LET b == [block EXCEPT !.time = t, !.height = Len(ch)]
    IN  [b EXCEPT !.hash = SHA256(b)]

\* pushBlock with unshift for push: the block goes to the front
pushBlockUnshift(ch, block) ==
    [chain |-> <<block>> \o ch, height |-> Len(ch) + 1]

\* pushBlock taking the length before the push
pushBlockStaleHeight(ch, block) ==
    [chain |-> Append(ch, block), height |-> Len(ch)]

\* Lines 89-90: push the block, update the height
pushBlock(ch, block) ==
    [chain |-> Append(ch, block), height |-> Len(ch) + 1]

\* _addBlock pushing the block before it looks at the validation's errors
_addBlockPushFirst(ch, h, block, errors, t) ==
    LET linked == linkBlock(ch, h, block)
        pushed == pushBlock(ch, sealBlock(ch, linked.block, t))
    IN  IF errors # <<>>
        THEN [status |-> "ChainCorrupt", chain |-> pushed.chain,
              height |-> pushed.height, ret |-> 0]
        ELSE IF linked.thrown
        THEN [status |-> "PrevHashNotFound", chain |-> pushed.chain,
              height |-> pushed.height, ret |-> 0]
        ELSE [status |-> "resolved", chain |-> pushed.chain,
              height |-> pushed.height, ret |-> Len(pushed.chain)]

\* _addBlock ignoring the validation's errors
_addBlockNoCheck(ch, h, block, errors, t) ==
    LET linked == linkBlock(ch, h, block)
        pushed == pushBlock(ch, sealBlock(ch, linked.block, t))
    IN  IF linked.thrown
        THEN [status |-> "PrevHashNotFound", chain |-> ch, height |-> h,
              ret |-> 0]
        ELSE [status |-> "resolved", chain |-> pushed.chain,
              height |-> pushed.height, ret |-> Len(pushed.chain)]

\* The continuation of _addBlock after `await this.validateChain()`
\* (lines 68-91) on chain ch and height h: the outcome, the chain and the
\* height it leaves, and the returned block (as its 1-based index, 0: none).
_addBlock(ch, h, block, errors, t) ==
    LET hasErrors == errors # <<>>
        linked == linkBlock(ch, h, block)
        pushed == pushBlock(ch, sealBlock(ch, linked.block, t))
    IN  IF hasErrors
        THEN [status |-> "ChainCorrupt", chain |-> ch, height |-> h, ret |-> 0]
        ELSE IF linked.thrown
        THEN [status |-> "PrevHashNotFound", chain |-> ch, height |-> h,
              ret |-> 0]
        ELSE [status |-> "resolved", chain |-> pushed.chain,
              height |-> pushed.height, ret |-> Len(pushed.chain)]

-----------------------------------------------------------------------------
(* submitStar *)

\* submitStarChecks throwing when the signature does verify (a lost `!`)
submitStarChecksLostNot(elapsedTime, isValid) ==
    IF elapsedIsMoreThan5Minutes(elapsedTime)
    THEN "ElapsedTime"
    ELSE IF isValid
    THEN "SignatureInvalid"
    ELSE "pass"

\* Lines 131-145: the checks before the block is made; "pass" when neither
\* throws
submitStarChecks(elapsedTime, isValid) ==
    IF elapsedIsMoreThan5Minutes(elapsedTime)
    THEN "ElapsedTime"
    ELSE IF ~isValid
    THEN "SignatureInvalid"
    ELSE "pass"

-----------------------------------------------------------------------------
(* State *)

\* An invocation that awaits its _addBlock: ret is the block it resolves
\* with (its 1-based index in the chain, 0: none)
CallRecord(op) == [op |-> op, status |-> "pending", ret |-> 0]

\* What the most recent invocation was given and did before its first await.
\* currentTime is always a number, so elapsedTime is NaN exactly when the
\* timestamp parsed from the message is.
LastRecord(op, status, elapsedTime, isValid) ==
    [op |-> op, status |-> status, elapsedTime |-> elapsedTime,
     isValid |-> isValid]

\* The continuation of invocation id, awaiting the validateChain() that its
\* _addBlock(block) has just started
awaitValidateChain(id, block, ch) ==
    [id |-> id, block |-> block] @@ validateChainLoop(ch, 1, NONE, <<>>)

\* new Blockchain(): chain = [], height = -1, and initializeChain() has run
\* up to the await of its _addBlock
Init ==
    /\ chain = <<>>
    /\ height = -1
    /\ now = StartTime
    /\ tampers = 0
    /\ calls = <<CallRecord("initializeChain")>>
    /\ last = LastRecord("initializeChain", "pending", NaN, FALSE)
    /\ queue = <<awaitValidateChain(1, Block(GenesisData), <<>>)>>

-----------------------------------------------------------------------------
(* Invocations by callers: the synchronous prefix of each method *)

\* initializeChain(), lines 35-40, invoked again by a caller
CallInitializeChain ==
    /\ IF height = -1
       THEN /\ Len(calls) < MaxCalls + 1
            /\ calls' = Append(calls, CallRecord("initializeChain"))
            /\ last' = LastRecord("initializeChain", "pending", NaN, FALSE)
            /\ queue' = Append(queue,
                   awaitValidateChain(Len(calls) + 1, Block(GenesisData), chain))
       ELSE /\ last' = LastRecord("initializeChain", "resolved", NaN, FALSE)
            /\ UNCHANGED <<calls, queue>>
    /\ UNCHANGED <<chain, height, now, tampers>>

\* submitStar(address, message, signature, star), lines 130-149, up to the
\* await of its _addBlock
submitStar(address, message, signature, star) ==
    LET msgTime == msgTimeOf(message)
        currentTime == Num(now)
        elapsedTime == Minus(currentTime, msgTime)
        isValid == verify(message, address, signature)
        check == submitStarChecks(elapsedTime, isValid)
        newStarBlock == Block(StarData(star, address))
    IN  /\ IF check = "pass"
           THEN /\ Len(calls) < MaxCalls + 1
                /\ calls' = Append(calls, CallRecord("submitStar"))
                /\ last' = LastRecord("submitStar", "pending", elapsedTime,
                                      isValid)
                /\ queue' = Append(queue,
                       awaitValidateChain(Len(calls) + 1, newStarBlock, chain))
           ELSE /\ last' = LastRecord("submitStar", check, elapsedTime, isValid)
                /\ UNCHANGED <<calls, queue>>
        /\ UNCHANGED <<chain, height, now, tampers>>

\* The ages (in seconds, when it is sent back) of the challenges a caller
\* may send back: issued 301, 300 or 0 seconds ago, or one second ahead
Ages == {fiveMinutes + 1, fiveMinutes, 0, -1}

\* Challenges issued to address that many seconds ago
IssuedMessages(address, ages) ==
    {requestMessageOwnershipVerification(address, now - a) : a \in ages}

\* Challenges without a timestamp field, or whose timestamp field is not a
\* number
MalformedMessages(address) ==
    {<<TextField(address)>>,
     <<TextField(address), TextField(0), TextField(0)>>}

\* The signatures a caller may send: the owner's over the message, or one
\* that does not verify (made for another address)
Signatures(message, address) ==
    {Sign(message, address), Sign(message, 0)}

\* A caller invokes submitStar for one of the addresses, with a challenge of
\* one of the ages or (malformed) a malformed one
CallSubmitStar(addresses, ages, malformed) ==
    \E address \in addresses, star \in Stars :
        \E message \in IssuedMessages(address, ages)
                \cup (IF malformed THEN MalformedMessages(address) ELSE {}) :
            \E signature \in Signatures(message, address) :
                submitStar(address, message, signature, star)

-----------------------------------------------------------------------------
(* Microtasks: the continuation at the head of the queue runs to its next await *)

\* validateChain resumed after `await block.validate()`, lines 226-238
StepValidate ==
    /\ queue # <<>>
    /\ Head(queue).pc = "validate"
    /\ LET c == Head(queue)
       IN  queue' = Append(Tail(queue),
                [id |-> c.id, block |-> c.block] @@ validateChainResume(chain, c))
    /\ UNCHANGED <<chain, height, calls, last, now, tampers>>

\* _addBlock resumed after `await this.validateChain()`, lines 68-91; the
\* method that awaits it (initializeChain, submitStar) settles with its outcome
StepAdd ==
    /\ queue # <<>>
    /\ Head(queue).pc = "add"
    /\ LET c == Head(queue)
           r == _addBlock(chain, height, c.block, c.errorLog, now)
       IN  /\ chain' = r.chain
           /\ height' = r.height
           /\ calls' = [calls EXCEPT ![c.id].status = r.status,
                                     ![c.id].ret = r.ret]
    /\ queue' = Tail(queue)
    /\ UNCHANGED <<last, now, tampers>>

\* A second passes
Tick ==
    /\ now < StartTime + MaxClock
    /\ now' = now + 1
    /\ UNCHANGED <<chain, height, queue, calls, last, tampers>>

-----------------------------------------------------------------------------
(* Code outside the class modifying a stored block in place: the lookups     *)
(* resolve with the stored Block object itself, not with a copy.             *)

TamperedBlocks(block) ==
    {[block EXCEPT !.body = EncodeData(StarData(0, 0))],
     [block EXCEPT !.hash = NONE],
     [block EXCEPT !.previousBlockHash = <<0>>]}

\* A stored block gets another body, loses its hash, gets another
\* previousBlockHash, or gets the hash of the first block
Tamper ==
    /\ tampers < MaxTamper
    /\ \E i \in 1..Len(chain) :
           \E b \in (TamperedBlocks(chain[i])
                      \cup {[chain[i] EXCEPT !.hash = chain[1].hash]})
                     \ {chain[i]} :
               chain' = [chain EXCEPT ![i] = b]
    /\ tampers' = tampers + 1
    /\ UNCHANGED <<height, queue, calls, last, now>>

-----------------------------------------------------------------------------
(* Specifications *)

Next ==
    \/ CallInitializeChain
    \/ CallSubmitStar(Addresses, Ages, TRUE)
    \/ StepValidate
    \/ StepAdd
    \/ Tick

\* The class and its callers
Spec == Init /\ [][Next]_vars

\* The microtask queue is drained: a pending continuation is eventually run
FairSpec == Spec /\ WF_vars(StepValidate) /\ WF_vars(StepAdd)

\* One wallet, sending back fresh or expired challenges, and code modifying
\* stored blocks
NextT ==
    \/ CallInitializeChain
    \/ CallSubmitStar({1}, {0, fiveMinutes + 1}, FALSE)
    \/ StepValidate
    \/ StepAdd
    \/ Tick
    \/ Tamper

\* The class, its callers, and code modifying stored blocks in place
SpecT == Init /\ [][NextT]_vars

-----------------------------------------------------------------------------
(* Lookups: each is run on the chain as it stands, between two microtasks *)

\* keepStar without the test of the star
keepStarAnyStar(blockData, address) ==
    "address" \in DOMAIN blockData /\ blockData.address = address

\* Line 202: blockData?.address === address && blockData?.star; a star of 0
\* is an absent (falsy) star
keepStar(blockData, address) ==
    /\ "address" \in DOMAIN blockData
    /\ blockData.address = address
    /\ blockData.star # 0

\* Lines 200-206: the loop of getStarsByWalletAddress from block i on
RECURSIVE getStarsFrom(_, _, _, _)
getStarsFrom(ch, i, address, stars) ==
    IF i > Len(ch)
    THEN stars
    ELSE LET blockData == DecodeBody(ch[i].body)
         IN  getStarsFrom(ch, i + 1, address,
                 IF keepStar(blockData, address)
                 THEN Append(stars, blockData)
                 ELSE stars)

\* getStarsByWalletAddress(address)
getStarsByWalletAddress(ch, address) == getStarsFrom(ch, 1, address, <<>>)

\* chain.find(b => b.hash === hash) from block i on: the index of the first
\* such block, 0 when there is none
RECURSIVE findByHash(_, _, _)
findByHash(ch, i, hash) ==
    IF i > Len(ch)
    THEN 0
    ELSE IF ch[i].hash = hash THEN i ELSE findByHash(ch, i + 1, hash)

\* getBlockByHash settling with the rejection, whatever was found
getBlockByHashRejectFirst(ch, hash) == [status |-> "rejected", ret |-> 0]

\* getBlockByHash(hash), lines 162-171: the promise is resolved with the
\* block found (ret, its 1-based index) and the reject that follows has no
\* effect on a settled promise; it is rejected when no block is found
getBlockByHash(ch, hash) ==
    LET block == findByHash(ch, 1, hash)
    IN  IF block # 0
        THEN [status |-> "resolved", ret |-> block]
        ELSE [status |-> "rejected", ret |-> 0]

\* chain.find(b => b.height === height) from block i on: the index of the
\* first such block, 0 when there is none
RECURSIVE findByHeight(_, _, _)
findByHeight(ch, i, n) ==
    IF i > Len(ch)
    THEN 0
    ELSE IF ch[i].height = n THEN i ELSE findByHeight(ch, i + 1, n)

\* getBlockByHeight with the reject that line 185 has in a comment
getBlockByHeightReject(ch, n) ==
    LET block == findByHeight(ch, 1, n)
    IN  IF block # 0
        THEN [status |-> "resolved", ret |-> block]
        ELSE [status |-> "rejected", ret |-> 0]

\* getBlockByHeight(height), lines 178-188: resolved with the block found
\* (ret, its 1-based index) or with null (ret 0)
getBlockByHeight(ch, n) ==
    [status |-> "resolved", ret |-> findByHeight(ch, 1, n)]

-----------------------------------------------------------------------------
(* Properties *)

Linked(ch) ==
    \A i \in 1..Len(ch) :
        ch[i].previousBlockHash = IF i = 1 THEN NONE ELSE ch[i - 1].hash

\* C1: with no code modifying stored blocks (Spec), in every reachable state
\* the first stored block's previousBlockHash is null and every later
\* block's previousBlockHash is the hash of the block before it.
C1_Linkage == Linked(chain)

\* Two star blocks were appended by invocations that were in flight together
C1_Witness ==
    /\ Len(chain) = 3
    /\ chain[1].previousBlockHash = NONE
    /\ chain[2].previousBlockHash = chain[1].hash
    /\ chain[3].previousBlockHash = chain[2].hash
    /\ chain[2].hash # chain[1].hash

\* C2: the height counter equals the number of stored blocks in every
\* reachable state, the state right after construction included.
C2_HeightIsLength == height = Len(chain)

\* The step in which the _addBlock of invocation id is resumed after its
\* validateChain
AddResumed(id) ==
    /\ queue # <<>>
    /\ Head(queue).pc = "add"
    /\ Head(queue).id = id
    /\ calls[id].status = "pending"
    /\ calls'[id].status # "pending"

\* C3: when the validateChain of a submitStar's _addBlock has reported a
\* violation, the invocation fails with the chain-corrupt error, no block is
\* pushed and the height is unchanged.
C3_CorruptChainRefused ==
    [][\A id \in 1..Len(calls) :
          (/\ AddResumed(id)
           /\ calls[id].op = "submitStar"
           /\ Head(queue).errorLog # <<>>)
          => /\ calls'[id].status = "ChainCorrupt"
             /\ chain' = chain
             /\ height' = height]_vars

\* A submitStar has failed with the chain-corrupt error
C3_Witness ==
    \E id \in 1..Len(calls) :
        /\ calls[id].op = "submitStar"
        /\ calls[id].status = "ChainCorrupt"

\* C4 as stated: submitStar with a signature that does not verify fails
\* with the signature-invalid error whatever the age of the challenge.
C4_SignatureInvalidRegardless ==
    (last.op = "submitStar" /\ ~last.isValid)
        => last.status = "SignatureInvalid"

\* C4 amended: submitStar with a signature that does not verify fails with
\* the signature-invalid error when the challenge's timestamp is at most 300
\* seconds old, and with the elapsed-time error when it is older.
C4_SignatureInvalidUnlessExpired ==
    (last.op = "submitStar" /\ ~last.isValid /\ ~last.elapsedTime.nan)
        => last.status = IF last.elapsedTime.val > 300
                         THEN "ElapsedTime"
                         ELSE "SignatureInvalid"

\* A signature that does not verify, over a challenge exactly 300 seconds
\* old, was rejected as invalid
C4_Witness ==
    /\ last.op = "submitStar"
    /\ ~last.isValid
    /\ last.elapsedTime = Num(300)
    /\ last.status = "SignatureInvalid"

\* C5: submitStar with a challenge whose timestamp is absent or not a number
\* fails with a malformed-challenge error (and so appends no block).
C5_MalformedRejected ==
    (last.op = "submitStar" /\ last.elapsedTime.nan)
        => last.status = "MalformedChallenge"

FailedStep ==
    \/ /\ last' # last
       /\ last'.status \in {"ElapsedTime", "SignatureInvalid"}
    \/ \E id \in 1..Len(calls) :
          /\ calls[id].status = "pending"
          /\ calls'[id].status \in {"ChainCorrupt", "PrevHashNotFound"}

\* C7: a failing submitStar or _addBlock leaves the stored chain and the
\* height as they were.
C7_FailureLeavesLedger ==
    [][FailedStep => (chain' = chain /\ height' = height)]_vars

\* Invocations have failed in each of the ways _addBlock can fail, and the
\* most recent one before its first await
C7_Witness ==
    /\ \E id \in 1..Len(calls) : calls[id].status = "ChainCorrupt"
    /\ \E id \in 1..Len(calls) : calls[id].status = "PrevHashNotFound"
    /\ last.status \in {"ElapsedTime", "SignatureInvalid"}

\* C8: a submitStar that succeeds on an initialized chain pushes exactly one
\* block at the end, whose previousBlockHash is the hash of the block that
\* was last, raises the height by 1 and resolves with the pushed block.
C8_SuccessfulSubmit ==
    [][\A id \in 1..Len(calls) :
          (/\ calls[id].op = "submitStar"
           /\ calls[id].status = "pending"
           /\ calls'[id].status = "resolved"
           /\ Len(chain) >= 1)
          => /\ height' = height + 1
             /\ Len(chain') = Len(chain) + 1
             /\ SubSeq(chain', 1, Len(chain)) = chain
             /\ chain'[Len(chain')].previousBlockHash = chain[Len(chain)].hash
             /\ calls'[id].ret = Len(chain')]_vars

\* A submitStar has succeeded on a chain of two blocks
C8_Witness ==
    \E id \in 1..Len(calls) :
        /\ calls[id].op = "submitStar"
        /\ calls[id].status = "resolved"
        /\ calls[id].ret = 3

\* Nothing has been invoked since construction
OnlyConstructed ==
    /\ Len(calls) = 1
    /\ last = LastRecord("initializeChain", "pending", NaN, FALSE)

FreshLedger ==
    /\ height = 1
    /\ Len(chain) = 1
    /\ DecodeBody(chain[1].body) = GenesisData
    /\ chain[1].previousBlockHash = NONE

\* C9: once the constructor's initialization has completed and nothing else
\* has been invoked, the height is 1 and the chain holds the genesis block
\* alone, with a null previousBlockHash; and the initialization does complete
\* in such a state.
C9_FreshLedger ==
    /\ []((OnlyConstructed /\ queue = <<>>) => FreshLedger)
    /\ <>(calls[1].status = "resolved" /\ FreshLedger)

\* The initialization has completed and nothing else was invoked
C9_Witness ==
    /\ OnlyConstructed
    /\ queue = <<>>
    /\ calls[1].status = "resolved"
    /\ FreshLedger

\* C10: appends are serialized: no two _addBlock in flight have both passed
\* the validation of the same chain, none of them having pushed yet.
C10_Serialized ==
    \A i, j \in 1..Len(queue) :
        (/\ i # j
         /\ queue[i].pc = "add"
         /\ queue[j].pc = "add"
         /\ queue[i].errorLog = <<>>
         /\ queue[j].errorLog = <<>>)
        => queue[i].seen # queue[j].seen


\* A block as a reader must find it: linked (but for the first), with its
\* time, its height and the digest of these as its hash
Complete(ch, i) ==
    /\ (i > 1 => ch[i].previousBlockHash # NONE)
    /\ ch[i].time >= StartTime
    /\ ch[i].height = i - 1
    /\ ch[i].hash # NONE
    /\ ch[i].hash = SHA256(ch[i])

\* C11: whatever the moment a read operation looks at the chain (Spec: any
\* point between two microtasks of the appends in flight), every block in
\* the chain array has its previousBlockHash, time, height and hash set.
C11_NoPartialBlock == \A i \in 1..Len(chain) : Complete(chain, i)

\* A star block is stored, complete, while another _addBlock is in the
\* middle of its validation of the chain
C11_Witness ==
    /\ Len(chain) = 2
    /\ Complete(chain, 2)
    /\ Len(queue) = 1
    /\ queue[1].pc = "validate"


\* The two defects a stored block can have
IsTampered(ch, i) == ch[i].hash # SHA256(ch[i])
IsUnlinked(ch, i) ==
    ch[i].previousBlockHash # (IF i = 1 THEN NONE ELSE ch[i - 1].hash)

\* The violations of block i: its tampering first, then its linkage
ViolationsOf(ch, i) ==
    (IF IsTampered(ch, i)
     THEN <<[kind |-> "tampered", hash |-> ch[i].hash]>> ELSE <<>>)
    \o (IF IsUnlinked(ch, i)
        THEN <<[kind |-> "linkage", hash |-> ch[i].hash]>> ELSE <<>>)

\* The violations of the first n blocks, in chain order
RECURSIVE CompleteReport(_, _)
CompleteReport(ch, n) ==
    IF n = 0 THEN <<>> ELSE CompleteReport(ch, n - 1) \o ViolationsOf(ch, n)

\* C12: validateChain (run on the chain as it stands) reports, in chain
\* order, one tamper violation for every block whose digest differs from its
\* hash and one linkage violation for every block whose previousBlockHash
\* differs from the hash of the block before it (null for the first); the
\* report is empty exactly when no block has either defect.
C12_CompleteReport ==
    /\ validateChain(chain) = CompleteReport(chain, Len(chain))
    /\ (validateChain(chain) = <<>>)
          <=> (\A i \in 1..Len(chain) :
                  ~IsTampered(chain, i) /\ ~IsUnlinked(chain, i))

\* The report names two different blocks: the scan went on after the first
\* violation
C12_Witness ==
    /\ Len(validateChain(chain)) = 2
    /\ validateChain(chain)[1].kind = "tampered"
    /\ validateChain(chain)[2].kind = "linkage"
    /\ validateChain(chain)[1].hash # validateChain(chain)[2].hash


\* The step in which the body of stored block i, and nothing else, is changed
BodyChanged(i) ==
    /\ tampers' = tampers + 1
    /\ i \in 1..Len(chain)
    /\ chain'[i].body # chain[i].body
    /\ chain' = [chain EXCEPT ![i].body = chain'[i].body]

\* C13: when the body of exactly one stored block of a chain without
\* violation is changed and its hash left as it is, validateChain reports
\* exactly one violation, a tamper violation naming that block's hash.
C13_BodyTamperReported ==
    [][\A i \in 1..Len(chain) :
          (BodyChanged(i) /\ validateChain(chain) = <<>>)
          => validateChain(chain')
                = <<[kind |-> "tampered", hash |-> chain[i].hash]>>]_vars

\* The body of a block that is neither the first nor the last was changed,
\* and nothing else
C13_Witness ==
    /\ tampers = 1
    /\ Len(chain) = 3
    /\ chain[2].body = EncodeData(StarData(0, 0))
    /\ chain[2].hash
         = SHA256([chain[2] EXCEPT !.body = EncodeData(StarData(1, 1))])
    /\ Len(validateChain(chain)) = 1


\* The decoded bodies of the stored blocks, in chain order
DecodedBodies(ch) == [i \in 1..Len(ch) |-> DecodeBody(ch[i].body)]

\* A decoded body with that address and a star
IsStarOf(d, address) ==
    IF d = GenesisData THEN FALSE ELSE d.address = address /\ d.star # 0

\* The addresses asked for: the callers' and that of a body without star
QueryAddresses == Addresses \cup {0}

\* The step in which a submitStar succeeds for address, no stored block
\* having a star of that address
FirstStarStored(id, address) ==
    /\ AddResumed(id)
    /\ calls[id].op = "submitStar"
    /\ calls'[id].status = "resolved"
    /\ DecodeBody(Head(queue).block.body).address = address
    /\ getStarsByWalletAddress(chain, address) = <<>>

QueryHashes == {chain[i].hash : i \in 1..Len(chain)} \cup {NONE, <<0>>}

\* The stored blocks with that hash
WithHash(hash) == {i \in 1..Len(chain) : chain[i].hash = hash}

\* C15: getBlockByHash(hash) resolves with the first stored block whose hash
\* is the argument, and is rejected (not found) exactly when no stored block
\* has that hash.
C15_BlockByHash ==
    \A hash \in QueryHashes :
        LET r == getBlockByHash(chain, hash)
        IN  /\ (r.status = "rejected") <=> (WithHash(hash) = {})
            /\ WithHash(hash) # {}
                 => /\ r.status = "resolved"
                    /\ r.ret \in WithHash(hash)
                    /\ \A i \in WithHash(hash) : r.ret <= i

\* Two stored blocks have the same hash and the lookup resolves with the
\* first; another hash is not found
C15_Witness ==
    /\ Len(chain) = 3
    /\ chain[3].hash = chain[1].hash
    /\ getBlockByHash(chain, chain[3].hash) = [status |-> "resolved", ret |-> 1]
    /\ getBlockByHash(chain, chain[2].hash) = [status |-> "resolved", ret |-> 2]
    /\ getBlockByHash(chain, <<0>>).status = "rejected"


\* The heights asked for: those of the stored blocks and the two after
QueryHeights == 0..(Len(chain) + 1)

\* C16: getBlockByHeight(n) never fails; for n at or above the current height
\* it resolves with null, and for 0 <= n < height with the block stored at
\* index n.
C16_BlockByHeight ==
    \A n \in QueryHeights :
        LET r == getBlockByHeight(chain, n)
        IN  /\ r.status = "resolved"
            /\ n >= height => r.ret = 0
            /\ n < height => r.ret = n + 1

\* On a chain of three blocks the last is found at 2 and nothing at 3
C16_Witness ==
    /\ height = 3
    /\ getBlockByHeight(chain, 0).ret = 1
    /\ getBlockByHeight(chain, 2).ret = 3
    /\ getBlockByHeight(chain, 3) = [status |-> "resolved", ret |-> 0]


\* The step in which the _addBlock of invocation id pushes its block
Pushed(id) ==
    /\ AddResumed(id)
    /\ calls'[id].status = "resolved"

\* C17: whenever _addBlock pushes a block, the chain it is pushed onto has no
\* tamper and no linkage violation at the moment of the push, also when a
\* stored block was modified between the start of that _addBlock's
\* validateChain and the push.
C17_PushOnValidChain ==
    [][\A id \in 1..Len(calls) :
          Pushed(id) => validateChain(chain) = <<>>]_vars


\* C18: a step of an operation of the ledger (any step but a modification of
\* a stored block by other code) leaves the stored blocks unchanged as a
\* prefix of the chain; the chain grows, by exactly one block, exactly in the
\* steps where an _addBlock succeeds; and the height never decreases.
C18_AppendOnly ==
    [][tampers' = tampers
          => /\ Len(chain') >= Len(chain)
             /\ SubSeq(chain', 1, Len(chain)) = chain
             /\ IF \E id \in 1..Len(calls) : Pushed(id)
                THEN Len(chain') = Len(chain) + 1
                ELSE Len(chain') = Len(chain)
             /\ height' >= height]_vars

\* One submitStar has pushed its block behind the genesis block and another
\* has failed on the chain of two
C18_Witness ==
    /\ Len(chain) = 2
    /\ height = 2
    /\ \E i, j \in 1..Len(calls) :
           /\ calls[i].op = "submitStar"
           /\ calls[i].status = "resolved"
           /\ calls[i].ret = 2
           /\ calls[j].status = "ChainCorrupt"


\* The stored blocks with the genesis marker body
GenesisBlocks ==
    {i \in 1..Len(chain) : DecodeBody(chain[i].body) = GenesisData}

\* C19: calling initializeChain again, after the genesis block is stored or
\* while the constructor's own initialization is still awaiting, adds no
\* block: the chain never holds more than one block with the genesis marker
\* body.
C19_OneGenesis == Cardinality(GenesisBlocks) <= 1


\* C20: in every reachable state each stored block's height field is its
\* index in the chain (0-based), and the first block is the genesis block,
\* also when submitStar is invoked before the constructor's initialization
\* has completed.
C20_HeightIsIndex ==
    /\ \A i \in 1..Len(chain) : chain[i].height = i - 1
    /\ chain # <<>> => DecodeBody(chain[1].body) = GenesisData

\* A star block is stored behind the genesis block, at height 1, while a
\* submitStar invoked before anything was stored has still to push
C20_Witness ==
    /\ Len(chain) = 2
    /\ DecodeBody(chain[1].body) = GenesisData
    /\ DecodeBody(chain[2].body) # GenesisData
    /\ chain[2].height = 1
    /\ queue # <<>>
    /\ Head(queue).pc = "add"
    /\ Head(queue).seen = 0
    /\ calls[Head(queue).id].op = "submitStar"

====
